---- MODULE Spec2Model ----
(***************************************************************************)
(* Model of the interactive filter-and-aggregate dashboards:               *)
(*   src/dashboard_utils.py, src/main_dashboard.py,                        *)
(*   src/talking_duration_dashboard.py, src/performance_rate_dashboard.py  *)
(*                                                                         *)
(* A table (pandas DataFrame) is a set of rows; a row is a function from   *)
(* column names to cell values and carries its index label in "id".        *)
(* A numeric cell is <<n>>, a missing / non-numeric cell (NaN) is <<>>.    *)
(* A date is a day ordinal of the year 2025 (1 = 1 Jan 2025); a timestamp  *)
(* is day * DayTicks + time-of-day tick.                                   *)
(***************************************************************************)
EXTENDS Integers, Sequences, FiniteSets, TLC

VARIABLES
    excel_file_selector,   \* st.session_state.excel_file_selector (main)
    selected_dashboard,    \* the "Go to" radio of main
    aggregation_period,    \* the radio of setup_filters
    min_date, max_date,    \* data bounds computed by setup_filters
    selected_start_date,   \* the "Start Date" date_input
    selected_end_date,     \* the "End Date" date_input
    session_state,         \* column -> list st.session_state['selected_<column>']
    avail,                 \* column -> options last rendered as available
    returned,              \* the table setup_filters returned in the last completed pass
    filtered_df,           \* the same table object once the dashboard body has run
    view,                  \* what the dashboard body rendered in the last completed pass
    pc,                    \* "idle", or "rerun" after st.rerun() was called
    pruned,                \* the <<column, option>> pairs the last pass removed from the selections
    last                   \* the last user interaction

vars == <<excel_file_selector, selected_dashboard, aggregation_period, min_date,
          max_date, selected_start_date, selected_end_date, session_state, avail,
          returned, filtered_df, view, pc, pruned, last>>

----------------------------------------------------------------------------
(* Bounds of the model *)

MaxRows == 4      \* rows read from each uploaded file
MaxSelected == 2  \* options selected at a time, over all filter columns
DayTicks == 2     \* time-of-day ticks per day
Margin == 3       \* days around the default window explored for the data bounds
AggDays == 1      \* days before and after a Sunday from which aggregated rows are dated

----------------------------------------------------------------------------
(* Program constants *)

filter_columns ==
    <<"Group", "WFH/Onsite", "Classification", "Inh/Vendor", "Team leader", "Supervisor">>

num_filter_cols == 3

DefaultStartDate == 274    \* pd.Timestamp('2025-10-01').date()
DefaultEndDate == 304      \* pd.Timestamp('2025-10-31').date()

AggregationPeriods == {"Daily", "Weekly", "Monthly"}

Dashboards == {"Talking Duration", "Performance Rate"}

NaN == <<>>

----------------------------------------------------------------------------
(* Generic helpers *)

Range(s) == {s[i] : i \in 1..Len(s)}

Min2(a, b) == IF a < b THEN a ELSE b

Stamp(day, tod) == day * DayTicks + tod

DateOf(ts) == ts \div DayTicks

MinOf(S) == CHOOSE x \in S : \A y \in S : x <= y

MaxOf(S) == CHOOSE x \in S : \A y \in S : y <= x

----------------------------------------------------------------------------
(* The uploaded Excel files, as load_data returns them *)

Row(id, g, w, c, i, t, s, day, tod, val, num, den) ==
    [col \in {"id", "Group", "WFH/Onsite", "Classification", "Inh/Vendor", "Team leader",
              "Supervisor", "Date V2", "Talk Duration V2",
              "Collected principal amount", "Collected assign amount"} |->
        CASE col = "id" -> id
          [] col = "Group" -> g
          [] col = "WFH/Onsite" -> w
          [] col = "Classification" -> c
          [] col = "Inh/Vendor" -> i
          [] col = "Team leader" -> t
          [] col = "Supervisor" -> s
          [] col = "Date V2" -> Stamp(day, tod)
          [] col = "Talk Duration V2" -> val
          [] col = "Collected principal amount" -> num
          [] col = "Collected assign amount" -> den]

\* Rows of files/a.xlsx; the first MaxRows of them are in the sheet.
SheetA ==
    << Row(1, "G1", "W1", "C1", "I1", "T1", "S1", DefaultStartDate,     0, <<10>>, <<30>>, <<50>>),
       Row(2, "G2", "W2", "C1", "I2", "T1", "S1", DefaultStartDate,     0, <<20>>, <<0>>,  <<0>>),
       Row(3, "G1", "W1", "C1", "I1", "T1", "S1", DefaultStartDate + 1, 1, NaN,    NaN,    <<5>>),
       Row(4, "G2", "W2", "C1", "I1", "T1", "S1", DefaultStartDate + 1, 0, <<5>>,  <<4>>,  <<8>>),
       Row(5, "G1", "W2", "C1", "I2", "T1", "S1", DefaultStartDate + 1, 0, <<7>>,  <<1>>,  <<2>>) >>

\* Rows of files/b.xlsx.
SheetB ==
    << Row(1, "G1", "W1", "C1", "I1", "T1", "S1", DefaultStartDate - 1, 0, <<3>>, <<1>>, <<4>>),
       Row(2, "G3", "W1", "C1", "I1", "T1", "S1", DefaultStartDate,     0, <<6>>, <<2>>, <<4>>) >>

Files == {"a.xlsx", "b.xlsx"}

Sheet(f) == IF f = "a.xlsx" THEN SheetA ELSE SheetB

\* load_data: the table read from the selected file
load_data(f) == {Sheet(f)[k] : k \in 1..Min2(MaxRows, Len(Sheet(f)))}

\* get_excel_files() is sorted and main defaults to the first entry
FirstFile == "a.xlsx"

----------------------------------------------------------------------------
(* setup_filters: the date range *)

DataMin(df) == MinOf({DateOf(r["Date V2"]) : r \in df})

DataMax(df) == MaxOf({DateOf(r["Date V2"]) : r \in df})

\* DefaultDates with the two substitutions of lines 199-202 lost
DefaultDatesClipOnly(mn, mx) ==
    [start |-> IF DefaultStartDate < mn THEN mn ELSE DefaultStartDate,
     end |-> IF DefaultEndDate > mx THEN mx ELSE DefaultEndDate]

\* Lines 191-202: the default window clipped to the data bounds.
DefaultDates(mn, mx) ==
    LET s0 == DefaultStartDate
        e0 == DefaultEndDate
        s1 == IF s0 < mn THEN mn ELSE s0
        e1 == IF e0 > mx THEN mx ELSE e0
        s2 == IF s1 > mx THEN mn ELSE s1
        e2 == IF e1 < mn THEN mx ELSE e1
    IN  [start |-> s2, end |-> e2]

\* pd.to_datetime(date): midnight of the day
ToDatetime(day) == Stamp(day, 0)

\* DateBounded that takes the two dates in whichever order makes a range
DateBoundedEitherOrder(df, s, e) ==
    {r \in df : /\ r["Date V2"] >= ToDatetime(IF s <= e THEN s ELSE e)
                /\ r["Date V2"] <= ToDatetime(IF s <= e THEN e ELSE s)}

\* Lines 222-225: the date-bounded copy of the table
DateBounded(df, s, e) ==
    {r \in df : r["Date V2"] >= ToDatetime(s) /\ r["Date V2"] <= ToDatetime(e)}

----------------------------------------------------------------------------
(* setup_filters: the categorical filters *)

Columns == Range(filter_columns)

EmptySelections == [c \in Columns |-> <<>>]

NumBatches == (Len(filter_columns) + num_filter_cols - 1) \div num_filter_cols

\* Lines 284-289: the b-th batch of filter columns (b = 0, 1, ...)
BatchCols(b) ==
    SubSeq(filter_columns, b * num_filter_cols + 1,
           Min2((b + 1) * num_filter_cols, Len(filter_columns)))

IndexOf(c) == CHOOSE k \in 1..Len(filter_columns) : filter_columns[k] = c

BatchOf(c) == (IndexOf(c) - 1) \div num_filter_cols

PosInBatch(c) == IndexOf(c) - BatchOf(c) * num_filter_cols

\* Line 299: all_options
AllOptions(df, c) == {r[c] : r \in df}

\* Line 302: available_options_for_this_filter
AvailableOptions(temp, c) == {r[c] : r \in temp}

\* Prune with the availability test lost
PruneKeepsAll(selection, available) == selection

\* Lines 305-307: keep the selected options that are still available
Prune(selection, available) == SelectSeq(selection, LAMBDA opt : opt \in available)

\* RenderBatch with a column's options taken from the rows that already
\* satisfy the column's own selection
RenderBatchOwnSelection(st, cols, n) ==
    LET done == {cols[k] : k \in 1..n}
        own(c) == IF st.sel[c] # <<>> THEN {r \in st.temp : r[c] \in Range(st.sel[c])}
                  ELSE st.temp
        av == [c \in Columns |->
                 IF c \in done THEN AvailableOptions(own(c), c) ELSE st.avail[c]]
    IN  [temp |-> st.temp,
         avail |-> av,
         sel |-> [c \in Columns |-> IF c \in done THEN Prune(st.sel[c], av[c]) ELSE st.sel[c]]]

\* Lines 294-307 for the first n columns of a batch: options and pruning
RenderBatch(st, cols, n) ==
    LET done == {cols[k] : k \in 1..n}
        av == [c \in Columns |->
                 IF c \in done THEN AvailableOptions(st.temp, c) ELSE st.avail[c]]
    IN  [temp |-> st.temp,
         avail |-> av,
         sel |-> [c \in Columns |-> IF c \in done THEN Prune(st.sel[c], av[c]) ELSE st.sel[c]]]

\* ApplySelection without the test for an empty selection
ApplySelectionAlways(temp, c, selection) == {r \in temp : r[c] \in Range(selection)}

\* Lines 329-330: one column's selection applied to the running table
ApplySelection(temp, c, selection) ==
    IF selection # <<>> THEN {r \in temp : r[c] \in Range(selection)} ELSE temp

\* Lines 328-330: the selections of the columns cols applied one after another
RECURSIVE ApplyCols(_, _, _)
ApplyCols(temp, sel, cols) ==
    IF cols = <<>> THEN temp
    ELSE ApplyCols(ApplySelection(temp, Head(cols), sel[Head(cols)]), sel, Tail(cols))

\* Lines 282-330: the batches b .. stop-1 rendered and applied in turn
RECURSIVE RunBatches(_, _, _)
RunBatches(st, b, stop) ==
    IF b >= stop THEN st
    ELSE LET r == RenderBatch(st, BatchCols(b), Len(BatchCols(b)))
         IN  RunBatches([r EXCEPT !.temp = ApplyCols(r.temp, r.sel, BatchCols(b))],
                        b + 1, stop)

\* Toggle that never removes
ToggleAppends(selection, option) == Append(selection, option)

\* Lines 320-323: the click handler of one option button
Toggle(selection, option) ==
    IF option \in Range(selection)
    THEN SelectSeq(selection, LAMBDA o : o # option)
    ELSE Append(selection, option)

\* A pass of setup_filters in which no button reports a click: lines 222-332
FullPass(df, s, e, sel, av) ==
    RunBatches([temp |-> DateBounded(df, s, e), sel |-> sel, avail |-> av], 0, NumBatches)

\* A pass in which the button (c, option) reports a click: the columns up to c
\* are rendered, the handler runs and st.rerun() abandons the pass.
ClickPass(df, s, e, sel, av, c, option) ==
    LET before == RunBatches([temp |-> DateBounded(df, s, e), sel |-> sel, avail |-> av],
                             0, BatchOf(c))
        r == RenderBatch(before, BatchCols(BatchOf(c)), PosInBatch(c))
    IN  [r EXCEPT !.sel[c] = Toggle(r.sel[c], option)]

----------------------------------------------------------------------------
(* Time buckets *)

\* First day of each month of 2025
MonthStarts == <<1, 32, 60, 91, 121, 152, 182, 213, 244, 274, 305, 335>>

\* Monday = 0 ... Sunday = 6; 1 Jan 2025 is a Wednesday
Weekday(day) == (day + 1) % 7

\* dt.to_period('W').dt.start_time: midnight of the Monday of the week
WeekStart(ts) == ToDatetime(DateOf(ts) - Weekday(DateOf(ts)))

\* dt.to_period('M').dt.start_time: midnight of the first day of the month
MonthStart(ts) ==
    ToDatetime(MaxOf({MonthStarts[k] : k \in {j \in 1..Len(MonthStarts) : MonthStarts[j] <= DateOf(ts)}}))

\* dashboard_utils.py lines 85-90, 118-123; performance_rate_dashboard.py lines 40-45
PeriodOf(ts, period) ==
    CASE period = "Weekly" -> WeekStart(ts)
      [] period = "Monthly" -> MonthStart(ts)
      [] OTHER -> ts

\* Month (1..12) and day of the month of a day of 2025
MonthOf(day) == Cardinality({k \in 1..Len(MonthStarts) : MonthStarts[k] <= day})

DayOfMonth(day) == day - MonthStarts[MonthOf(day)] + 1

\* strftime('%U'): week of the year with Sunday as the first day of the week;
\* the days before the first Sunday are in week 0
WeekOfYear(day) == (day - 1 + 7 - ((Weekday(day) + 1) % 7)) \div 7

\* strftime of a column header (dashboard_utils.py lines 99-104,
\* performance_rate_dashboard.py lines 64-69): 'W%U-%y', '%b-%y', '%d/%b/%y'
Label(p, period) ==
    CASE period = "Weekly" -> [U |-> WeekOfYear(DateOf(p)), y |-> 25]
      [] period = "Monthly" -> [b |-> MonthOf(DateOf(p)), y |-> 25]
      [] OTHER -> [d |-> DayOfMonth(DateOf(p)), b |-> MonthOf(DateOf(p)), y |-> 25]

----------------------------------------------------------------------------
(* Aggregation *)

\* Sum of the numeric cells of a column
RECURSIVE SumCol(_, _)
SumCol(rows, col) ==
    IF rows = {} THEN 0
    ELSE LET r == CHOOSE x \in rows : TRUE
         IN  r[col][1] + SumCol(rows \ {r}, col)

\* A row with one more (or one replaced) column
WithCol(r, col, val) == [k \in DOMAIN r \cup {col} |-> IF k = col THEN val ELSE r[k]]

\* DropNaN with the fill-with-0 policy of the ratio engine
DropNaNFillsZero(df, col) ==
    {WithCol(r, col, IF r[col] = NaN THEN <<0>> ELSE r[col]) : r \in df}

\* pd.to_numeric(errors='coerce') on a float column followed by dropna
DropNaN(df, col) == {r \in df : r[col] # NaN}

\* FillNaN with the drop policy of the mean engine
FillNaNDrops(df, col) == {r \in df : r[col] # NaN}

\* pd.to_numeric(errors='coerce').fillna(0)
FillNaN(df, col) == {WithCol(r, col, IF r[col] = NaN THEN <<0>> ELSE r[col]) : r \in df}

AddPeriod(df, period) == {WithCol(r, "Period", PeriodOf(r["Date V2"], period)) : r \in df}

\* groupby([key, 'Period'])[value].mean(): one cell per group that has rows;
\* the mean is kept as the pair sum / n
GroupMean(df, key, col) ==
    {[key |-> g[1], Period |-> g[2],
      sum |-> SumCol({r \in df : r[key] = g[1] /\ r["Period"] = g[2]}, col),
      n |-> Cardinality({r \in df : r[key] = g[1] /\ r["Period"] = g[2]})] :
        g \in {<<r[key], r["Period"]>> : r \in df}}

\* The columns of pivot_table(...), one per Period value among the cells, each
\* with its formatted header
PivotColumns(cells, period) ==
    {[Period |-> p, label |-> Label(p, period)] : p \in {cell.Period : cell \in cells}}

\* apply_filters_and_aggregate (lines 76-106): the pivot it returns and the
\* state in which it leaves the table object it was given
apply_filters_and_aggregate(df, period, value_column) ==
    IF df = {} THEN [pivot |-> {}, columns |-> {}, df |-> df]
    ELSE LET kept == AddPeriod(DropNaN(df, value_column), period)
             cells == GroupMean(kept, "Group", value_column)
         IN  [pivot |-> cells, columns |-> PivotColumns(cells, period), df |-> kept]

\* generate_chart_data (lines 109-134): works on temp_df = df.copy()
generate_chart_data(df, period, chart_group_col, value_column) ==
    IF df = {} THEN [data |-> {}, df |-> df]
    ELSE LET temp_df == AddPeriod(DropNaN(df, value_column), period)
         IN  [data |-> GroupMean(temp_df, chart_group_col, value_column), df |-> df]

\* GroupRate without the np.where guard: the quotient as it comes
GroupRateUnguarded(df, key) ==
    {LET rows == {r \in df : r[key] = g[1] /\ r["Period"] = g[2]}
         tp == SumCol(rows, "Collected principal amount")
         ta == SumCol(rows, "Collected assign amount")
     IN  [key |-> g[1], Period |-> g[2], total_principal |-> tp, total_assign |-> ta,
          rate |-> <<tp, ta>>] :
        g \in {<<r[key], r["Period"]>> : r \in df}}

\* performance_rate_dashboard.py lines 48-58, 113-122: sums per group and the
\* rate, 0 when the sum of the denominator is 0, else the pair num / den
GroupRate(df, key) ==
    {LET rows == {r \in df : r[key] = g[1] /\ r["Period"] = g[2]}
         tp == SumCol(rows, "Collected principal amount")
         ta == SumCol(rows, "Collected assign amount")
     IN  [key |-> g[1], Period |-> g[2], total_principal |-> tp, total_assign |-> ta,
          rate |-> IF ta = 0 THEN <<0, 1>> ELSE <<tp, ta>>] :
        g \in {<<r[key], r["Period"]>> : r \in df}}

\* The default of the chart multiselect (both dashboards)
selected_chart_columns == <<"Inh/Vendor", "Classification">>

NoDataMsg == "No data available after applying filters."

NoMatchMsg == "No data matches the selected filters for the specified aggregation."

\* talking_duration_dashboard (lines 30-71) after setup_filters has returned
talking_duration_dashboard(filtered, period) ==
    LET agg == apply_filters_and_aggregate(filtered, period, "Talk Duration V2")
        after == IF filtered # {} THEN agg.df ELSE filtered
    IN  [filtered_df |-> after,
         view |-> [error |-> "none",
                   info |-> IF filtered = {} THEN NoDataMsg
                            ELSE IF agg.pivot = {} THEN NoMatchMsg ELSE "",
                   pivot |-> IF filtered = {} THEN {} ELSE agg.pivot,
                   columns |-> IF filtered = {} THEN {} ELSE agg.columns,
                   charts |-> {[col |-> selected_chart_columns[k],
                                data |-> generate_chart_data(after, period,
                                            selected_chart_columns[k], "Talk Duration V2").data] :
                                 k \in 1..Len(selected_chart_columns)}]]

\* performance_rate_dashboard (lines 32-126) after setup_filters has returned;
\* grouped_sums and temp_df_for_calc are bound only when filtered_df is not empty
performance_rate_dashboard(filtered, period) ==
    LET temp_df_for_calc ==
            AddPeriod(FillNaN(FillNaN(filtered, "Collected principal amount"),
                              "Collected assign amount"), period)
        grouped_sums == GroupRate(temp_df_for_calc, "Group")
    IN  IF filtered = {}
        THEN [filtered_df |-> filtered,
              view |-> [error |-> "NameError", info |-> NoDataMsg, pivot |-> {}, columns |-> {},
                        charts |-> {}]]
        ELSE [filtered_df |-> filtered,
              view |-> [error |-> "none",
                        info |-> IF grouped_sums = {} THEN NoMatchMsg ELSE "",
                        pivot |-> grouped_sums,
                        columns |-> PivotColumns(grouped_sums, period),
                        charts |-> {[col |-> selected_chart_columns[k],
                                     data |-> GroupRate(temp_df_for_calc, selected_chart_columns[k])] :
                                      k \in 1..Len(selected_chart_columns)}]]

\* main (lines 112-124): the selected dashboard runs on the selected file
RunDashboard(dash, filtered, period) ==
    IF dash = "Performance Rate" THEN performance_rate_dashboard(filtered, period)
    ELSE talking_duration_dashboard(filtered, period)

----------------------------------------------------------------------------
(* The session *)

\* last: the kind of interaction; for a button press the column, the option,
\* whether the button fired, the options selected in the column before it,
\* whether it repeats the press just before it and, if so, the options
\* selected in the column before that first press
NoClick(op) ==
    [op |-> op, col |-> "", option |-> "", fired |-> FALSE, before |-> {},
     again |-> FALSE, first |-> {}]

Click(c, option, fired) ==
    LET again == /\ fired
                 /\ last.op = "click" /\ last.fired
                 /\ last.col = c /\ last.option = option
    IN  [op |-> "click", col |-> c, option |-> option, fired |-> fired,
         before |-> Range(session_state[c]),
         again |-> again, first |-> IF again THEN last.before ELSE {}]

Removed(old, new) ==
    UNION {{<<c, o>> : o \in {x \in Range(old[c]) : x \notin Range(new[c])}} : c \in Columns}

\* A script run in which no button reports a click: setup_filters returns and
\* the dashboard body runs to its end (or to its first uncaught exception).
Settle(f, dash, period, s, e, sel) ==
    \E pass \in {FullPass(load_data(f), s, e, sel, [c \in Columns |-> {}])} :
    \E body \in {RunDashboard(dash, pass.temp, period)} :
        /\ session_state' = pass.sel
        /\ avail' = pass.avail
        /\ returned' = pass.temp
        /\ filtered_df' = body.filtered_df
        /\ view' = body.view
        /\ pruned' = Removed(sel, pass.sel)
        /\ pc' = "idle"

Init ==
    LET df == load_data(FirstFile)
        d == DefaultDates(DataMin(df), DataMax(df))
        pass == FullPass(df, d.start, d.end, EmptySelections, [c \in Columns |-> {}])
        body == RunDashboard("Talking Duration", pass.temp, "Daily")
    IN  /\ excel_file_selector = FirstFile
        /\ selected_dashboard = "Talking Duration"
        /\ aggregation_period = "Daily"
        /\ min_date = DataMin(df)
        /\ max_date = DataMax(df)
        /\ selected_start_date = d.start
        /\ selected_end_date = d.end
        /\ session_state = pass.sel
        /\ avail = pass.avail
        /\ returned = pass.temp
        /\ filtered_df = body.filtered_df
        /\ view = body.view
        /\ pc = "idle"
        /\ pruned = {}
        /\ last = NoClick("open")

\* The user picks another start date (date_input, lines 205-210)
ChangeStartDate(s) ==
    /\ pc = "idle"
    /\ s # selected_start_date
    /\ selected_start_date' = s
    /\ last' = NoClick("date")
    /\ Settle(excel_file_selector, selected_dashboard, aggregation_period,
              s, selected_end_date, session_state)
    /\ UNCHANGED <<excel_file_selector, selected_dashboard, aggregation_period,
                   min_date, max_date, selected_end_date>>

\* The user picks another end date (date_input, lines 211-216)
ChangeEndDate(e) ==
    /\ pc = "idle"
    /\ e # selected_end_date
    /\ selected_end_date' = e
    /\ last' = NoClick("date")
    /\ Settle(excel_file_selector, selected_dashboard, aggregation_period,
              selected_start_date, e, session_state)
    /\ UNCHANGED <<excel_file_selector, selected_dashboard, aggregation_period,
                   min_date, max_date, selected_start_date>>

\* The user picks another aggregation period (radio, lines 180-183)
ChangePeriod(p) ==
    /\ pc = "idle"
    /\ p # aggregation_period
    /\ aggregation_period' = p
    /\ last' = NoClick("period")
    /\ Settle(excel_file_selector, selected_dashboard, p,
              selected_start_date, selected_end_date, session_state)
    /\ UNCHANGED <<excel_file_selector, selected_dashboard, min_date, max_date,
                   selected_start_date, selected_end_date>>

\* The user picks another dashboard (main, lines 120-124)
SelectDashboard(d) ==
    /\ pc = "idle"
    /\ d # selected_dashboard
    /\ selected_dashboard' = d
    /\ last' = NoClick("dashboard")
    /\ Settle(excel_file_selector, d, aggregation_period,
              selected_start_date, selected_end_date, session_state)
    /\ UNCHANGED <<excel_file_selector, aggregation_period, min_date, max_date,
                   selected_start_date, selected_end_date>>

\* The user picks another Excel file (main, lines 68-73 and 110-124).  The
\* session state keys selected_<column> are left as they are; the two date
\* inputs have no key, so they keep the user's dates only when their value,
\* min_value and max_value arguments are those of the previous run.
SelectFile(f) ==
    LET df == load_data(f)
        mn == DataMin(df)
        mx == DataMax(df)
        d == DefaultDates(mn, mx)
        old == DefaultDates(min_date, max_date)
        s == IF mn = min_date /\ mx = max_date /\ d.start = old.start
             THEN selected_start_date ELSE d.start
        e == IF mn = min_date /\ mx = max_date /\ d.end = old.end
             THEN selected_end_date ELSE d.end
    IN  /\ pc = "idle"
        /\ f # excel_file_selector
        /\ excel_file_selector' = f
        /\ min_date' = mn
        /\ max_date' = mx
        /\ selected_start_date' = s
        /\ selected_end_date' = e
        /\ last' = NoClick("file")
        /\ Settle(f, selected_dashboard, aggregation_period, s, e, session_state)
        /\ UNCHANGED <<selected_dashboard, aggregation_period>>

\* How many options are selected, over all filter columns
RECURSIVE SumLen(_, _)
SumLen(sel, cols) == IF cols = <<>> THEN 0 ELSE Len(sel[Head(cols)]) + SumLen(sel, Tail(cols))

NumSelected(sel) == SumLen(sel, filter_columns)

\* st.rerun() abandons the run before setup_filters returns
NothingRendered == [error |-> "none", info |-> "", pivot |-> {}, columns |-> {}, charts |-> {}]

\* A button whose disabled flag is lost
ButtonAlwaysFires(available, option) == TRUE

\* st.button(..., disabled=not is_available), lines 314-319: a press of a
\* disabled button reaches no handler
ButtonFires(available, option) == option \in available

\* The user presses the button of option in the expander of column c
\* (lines 309-324).  When the button fires, the script runs up to the handler,
\* which toggles the option and calls st.rerun().
ClickButton(c, option) ==
    /\ pc = "idle"
    /\ option \in AllOptions(load_data(excel_file_selector), c)
    /\ option \in Range(session_state[c]) \/ NumSelected(session_state) < MaxSelected
    /\ IF ButtonFires(avail[c], option)
       THEN \E p \in {ClickPass(load_data(excel_file_selector), selected_start_date,
                                selected_end_date, session_state, avail, c, option)} :
                /\ session_state' = p.sel
                /\ avail' = p.avail
                /\ pc' = "rerun"
                /\ pruned' = Removed(session_state, p.sel) \ {<<c, option>>}
                /\ last' = Click(c, option, TRUE)
                /\ returned' = {}
                /\ filtered_df' = {}
                /\ view' = NothingRendered
       ELSE /\ last' = Click(c, option, FALSE)
            /\ UNCHANGED <<session_state, avail, pc, pruned, returned, filtered_df, view>>
    /\ UNCHANGED <<excel_file_selector, selected_dashboard, aggregation_period,
                   min_date, max_date, selected_start_date, selected_end_date>>

\* The script run that st.rerun() started (line 324)
RerunPass ==
    /\ pc = "rerun"
    /\ Settle(excel_file_selector, selected_dashboard, aggregation_period,
              selected_start_date, selected_end_date, session_state)
    /\ UNCHANGED <<excel_file_selector, selected_dashboard, aggregation_period,
                   min_date, max_date, selected_start_date, selected_end_date, last>>

Next ==
    \/ \E s \in min_date..max_date : ChangeStartDate(s)
    \/ \E e \in min_date..max_date : ChangeEndDate(e)
    \/ \E p \in AggregationPeriods : ChangePeriod(p)
    \/ \E d \in Dashboards : SelectDashboard(d)
    \/ \E f \in Files : SelectFile(f)
    \/ \E c \in Columns : \E option \in AllOptions(load_data(excel_file_selector), c) :
          ClickButton(c, option)
    \/ RerunPass

Spec == Init /\ [][Next]_vars

----------------------------------------------------------------------------
(* The default date range on its own: data bounds drawn around the window *)

InitDates ==
    /\ min_date \in (DefaultStartDate - Margin)..(DefaultEndDate + Margin)
    /\ max_date \in min_date..(DefaultEndDate + Margin)
    /\ selected_start_date = min_date
    /\ selected_end_date = max_date
    /\ pc = "open"
    /\ excel_file_selector = FirstFile
    /\ selected_dashboard = "Talking Duration"
    /\ aggregation_period = "Daily"
    /\ session_state = EmptySelections
    /\ avail = [c \in Columns |-> {}]
    /\ returned = {}
    /\ filtered_df = {}
    /\ view = NothingRendered
    /\ pruned = {}
    /\ last = NoClick("open")

\* Lines 187-216 on the first run: both date inputs show their defaults
ShowDefaultDates ==
    /\ pc = "open"
    /\ selected_start_date' = DefaultDates(min_date, max_date).start
    /\ selected_end_date' = DefaultDates(min_date, max_date).end
    /\ pc' = "dates"
    /\ UNCHANGED <<excel_file_selector, selected_dashboard, aggregation_period, min_date,
                   max_date, session_state, avail, returned, filtered_df, view, pruned, last>>

NextDates == ShowDefaultDates

SpecDates == InitDates /\ [][NextDates]_vars

----------------------------------------------------------------------------
(* The dashboard body on its own: the table setup_filters returned is drawn *)

\* Sunday 5 October 2025
AggSunday == DefaultStartDate + 4

AggDates == (AggSunday - AggDays)..(AggSunday + AggDays)

\* Talk Duration V2, Collected principal amount, Collected assign amount
AggValues == { <<NaN, NaN, <<5>> >>, << <<10>>, <<30>>, <<50>> >>, << <<20>>, <<0>>, <<0>> >> }

AggRows(id) ==
    {Row(id, g, "W1", "C1", "I1", "T1", "S1", day, tod, v[1], v[2], v[3]) :
        g \in {"G1", "G2"}, day \in AggDates, tod \in 0..(DayTicks - 1), v \in AggValues}

\* Tables of one or two rows
AggTables == {{r} : r \in AggRows(1)} \cup {{r1, r2} : r1 \in AggRows(1), r2 \in AggRows(2)}

InitAgg ==
    /\ returned \in AggTables
    /\ filtered_df = returned
    /\ aggregation_period \in AggregationPeriods
    /\ selected_dashboard \in Dashboards
    /\ pc = "filtered"
    /\ view = NothingRendered
    /\ min_date = DataMin(returned)
    /\ max_date = DataMax(returned)
    /\ selected_start_date = min_date
    /\ selected_end_date = max_date
    /\ excel_file_selector = FirstFile
    /\ session_state = EmptySelections
    /\ avail = [c \in Columns |-> {}]
    /\ pruned = {}
    /\ last = NoClick("open")

\* The selected dashboard's body runs on the table setup_filters returned
Aggregate ==
    /\ pc = "filtered"
    /\ \E body \in {RunDashboard(selected_dashboard, returned, aggregation_period)} :
          /\ filtered_df' = body.filtered_df
          /\ view' = body.view
    /\ pc' = "aggregated"
    /\ UNCHANGED <<excel_file_selector, selected_dashboard, aggregation_period, min_date,
                   max_date, selected_start_date, selected_end_date, session_state, avail,
                   returned, pruned, last>>

NextAgg == Aggregate

SpecAgg == InitAgg /\ [][NextAgg]_vars

----------------------------------------------------------------------------
(* Properties *)

df == load_data(excel_file_selector)

date_bounded == DateBounded(df, selected_start_date, selected_end_date)

Preceding(c) == {e \in Columns : IndexOf(e) < IndexOf(c)}

\* The rows that satisfy the selections of the columns in cols (an empty
\* selection restricts nothing)
Satisfying(rows, sel, cols) ==
    {r \in rows : \A e \in cols : sel[e] # <<>> => r[e] \in Range(sel[e])}

\* C1: after every completed pass, the options offered for a column are the
\* distinct values of the column among the rows in the date range that satisfy
\* the selections of all the columns before it in filter_columns.
C1_Claim ==
    pc = "idle" =>
        \A c \in Columns :
            avail[c] = {r[c] : r \in Satisfying(date_bounded, session_state, Preceding(c))}

\* C2: after every completed pass, every selected option of every column is
\* among the options that pass offered as available for the column.
C2_SelectedAreAvailable ==
    pc = "idle" => \A c \in Columns : Range(session_state[c]) \subseteq avail[c]

\* A date change has made a selected option unavailable and the pass removed it
C2_Witness ==
    /\ pc = "idle"
    /\ last.op = "date"
    /\ \E q \in pruned : q[2] \notin avail[q[1]] /\ q[2] \notin Range(session_state[q[1]])

\* All the orders in which the columns of S can be taken
OrdersOf(S) ==
    {o \in [1..Cardinality(S) -> S] : \A i, j \in 1..Cardinality(S) : i # j => o[i] # o[j]}

Active(sel) == {c \in Columns : sel[c] # <<>>}

Reversed(q) == [i \in 1..Len(q) |-> q[Len(q) + 1 - i]]

\* C3: the table setup_filters returns holds exactly the rows in the date range
\* whose value, for every column with a non-empty selection, is in the
\* selection; applying the selections in any other order gives the same table
\* (a column with an empty selection is skipped wherever it stands, so the
\* orders are those of the columns with a selection, and the reverse of
\* filter_columns).
C3_ReturnedTable ==
    pc = "idle" =>
        /\ returned = Satisfying(date_bounded, session_state, Columns)
        /\ \A o \in OrdersOf(Active(session_state)) :
              ApplyCols(date_bounded, session_state, o) = returned
        /\ ApplyCols(date_bounded, session_state, Reversed(filter_columns)) = returned

\* Two columns restrict the table, and rows are both kept and removed
C3_Witness ==
    /\ pc = "idle"
    /\ Cardinality(Active(session_state)) >= 2
    /\ returned # {}
    /\ returned # date_bounded

\* C4: in the first pass over a newly selected file every selection is empty.
C4_Claim ==
    (pc = "idle" /\ last.op = "file") => \A c \in Columns : session_state[c] = <<>>

\* C5: a pass whose filtered table is empty ends in the informational empty
\* state, in every dashboard, without an error.
C5_Claim ==
    (pc = "idle" /\ returned = {}) => (view.error = "none" /\ view.info = NoDataMsg)

\* C6: the table setup_filters returned is, after the dashboard body has run
\* its aggregation and chart steps on it, the table it was: same rows, same
\* columns, same cells.
C6_Claim ==
    pc = "idle" => filtered_df = returned

Toggled(S, option) == IF option \in S THEN S \ {option} ELSE S \cup {option}

\* C7: a press of an enabled button adds the option to the column's selection
\* when it was absent and removes it when it was present, and the rerun keeps
\* that; pressing the same button twice in a row leaves the column with the
\* set of options it had before the first press.
C7_Toggle ==
    (last.op = "click" /\ last.fired) =>
        /\ Range(session_state[last.col]) = Toggled(last.before, last.option)
        /\ last.again => Range(session_state[last.col]) = last.first

\* The same button pressed twice in a row, once adding and once removing
C7_Witness ==
    /\ pc = "idle"
    /\ last.again
    /\ last.first # {}
    /\ last.option \in last.first

\* C8: a press of the button of an option that is not available changes no
\* selection and starts no run.
C8_DisabledNoOp ==
    [][(last'.op = "click" /\ last'.option \notin avail[last'.col] /\ pc = "idle") =>
          /\ session_state' = session_state
          /\ pc' = "idle"
          /\ UNCHANGED <<avail, returned, filtered_df, view, pruned>>]_vars

\* The button of an unavailable option has been pressed
C8_Witness ==
    /\ last.op = "click"
    /\ ~last.fired
    /\ last.option \notin avail[last.col]
    /\ last.option \in AllOptions(df, last.col)

UpTo(c) == Preceding(c) \cup {c}

\* C9: a toggle in column c changes neither the selections nor the options of
\* the columns before c, and the options of c itself stay as they were: in the
\* run of the handler only c's selection changes, and the rerun leaves the
\* options of the columns up to c and the selections of the columns up to c
\* as the handler left them.
C9_Directional ==
    [][/\ (pc = "idle" /\ pc' = "rerun") =>
            /\ \A e \in Columns \ {last'.col} : session_state'[e] = session_state[e]
            /\ \A e \in UpTo(last'.col) : avail'[e] = avail[e]
       /\ (pc = "rerun" /\ pc' = "idle") =>
            /\ \A e \in UpTo(last.col) : avail'[e] = avail[e]
            /\ \A e \in UpTo(last.col) : session_state'[e] = session_state[e]]_vars

\* A toggle in a column of the second batch, with a selection in force before it
C9_Witness ==
    /\ pc = "idle"
    /\ last.op = "click" /\ last.fired
    /\ last.col = "Inh/Vendor"
    /\ session_state["Group"] # <<>>
    /\ avail["Inh/Vendor"] # AllOptions(df, "Inh/Vendor")

\* C10: the default date range is the window clipped to the data bounds, the
\* data bounds themselves when the window lies outside them, and always
\* min_date <= start <= end <= max_date.
C10_DefaultDates ==
    pc = "dates" =>
        LET outside == DefaultStartDate > max_date \/ DefaultEndDate < min_date
            clipS == IF DefaultStartDate < min_date THEN min_date ELSE DefaultStartDate
            clipE == IF DefaultEndDate > max_date THEN max_date ELSE DefaultEndDate
        IN  /\ outside => (selected_start_date = min_date /\ selected_end_date = max_date)
            /\ ~outside => (selected_start_date = clipS /\ selected_end_date = clipE)
            /\ min_date <= selected_start_date
            /\ selected_start_date <= selected_end_date
            /\ selected_end_date <= max_date

\* The window lies wholly after the data and the data bounds are substituted
C10_Witness ==
    /\ pc = "dates"
    /\ max_date < DefaultStartDate
    /\ min_date < max_date
    /\ selected_start_date = min_date
    /\ selected_end_date = max_date

----------------------------------------------------------------------------
(* Properties of the aggregation *)

\* The sum of a column over rows, a missing cell counting 0
RECURSIVE TotalOf(_, _)
TotalOf(rows, col) ==
    IF rows = {} THEN 0
    ELSE LET r == CHOOSE x \in rows : TRUE
         IN  (IF r[col] = NaN THEN 0 ELSE r[col][1]) + TotalOf(rows \ {r}, col)

\* The rows of the returned table in the group (k, p) of a grouping column
InGroup(key, k, p) ==
    {r \in returned : r[key] = k /\ PeriodOf(r["Date V2"], aggregation_period) = p}

GroupsOf(key, rows) ==
    {<<r[key], PeriodOf(r["Date V2"], aggregation_period)>> : r \in rows}

\* The grouped tables of the view: the pivot by Group and one chart per chart column
Grouped(key) ==
    IF key = "Group" THEN view.pivot
    ELSE UNION {ch.data : ch \in {x \in view.charts : x.col = key}}

GroupingColumns == {"Group"} \cup Range(selected_chart_columns)

ratio_ran == pc = "aggregated" /\ selected_dashboard = "Performance Rate"

mean_ran == pc = "aggregated" /\ selected_dashboard = "Talking Duration"

\* C11: in the ratio dashboard every group of the pivot and of each chart has
\* a defined rate and no error is raised: 0 when the denominators of the
\* group's rows sum to 0, else the sum of the numerators over the sum of the
\* denominators.
C11_Ratio ==
    ratio_ran =>
        /\ view.error = "none"
        /\ \A key \in GroupingColumns :
              /\ {<<cell.key, cell.Period>> : cell \in Grouped(key)} = GroupsOf(key, returned)
              /\ \A cell \in Grouped(key) :
                    LET num == TotalOf(InGroup(key, cell.key, cell.Period),
                                       "Collected principal amount")
                        den == TotalOf(InGroup(key, cell.key, cell.Period),
                                       "Collected assign amount")
                    IN  /\ cell.rate[2] # 0
                        /\ cell.rate = IF den = 0 THEN <<0, 1>> ELSE <<num, den>>

\* One group whose denominators sum to 0 and one whose denominators do not
C11_Witness ==
    /\ ratio_ran
    /\ \E c1, c2 \in view.pivot :
          /\ c1.total_assign = 0 /\ c1.rate = <<0, 1>>
          /\ c2.total_assign # 0 /\ c2.rate = <<c2.total_principal, c2.total_assign>>

Numeric(rows, col) == {r \in rows : r[col] # NaN}

\* C12: the mean pivot has a cell for (g, p) exactly when some row of Group g
\* and bucket p has a numeric value, and the cell holds the sum and the count
\* of those rows only (the mean as sum / n); the bucket is the Period the
\* engine assigns.
C12_MeanCells ==
    mean_ran =>
        view.pivot =
            {[key |-> g[1], Period |-> g[2],
              sum |-> TotalOf(Numeric(InGroup("Group", g[1], g[2]), "Talk Duration V2"),
                              "Talk Duration V2"),
              n |-> Cardinality(Numeric(InGroup("Group", g[1], g[2]), "Talk Duration V2"))] :
                g \in GroupsOf("Group", Numeric(returned, "Talk Duration V2"))}

\* A cell whose group has a row without a numeric value next to one with a
\* value, and a (group, period) pair without a cell
C12_Witness ==
    /\ mean_ran
    /\ \E cell \in view.pivot :
          /\ cell.n = 1
          /\ Cardinality(InGroup("Group", cell.key, cell.Period)) = 2
    /\ \E r \in returned : r["Talk Duration V2"] = NaN

\* C13: in the ratio dashboard a row with a missing numerator or denominator
\* stays in its group: the group is in the pivot, and both sums of the group
\* run over all its rows, the missing cell counting 0.
C13_BadRowsKept ==
    ratio_ran =>
        \A r \in returned :
            (r["Collected principal amount"] = NaN \/ r["Collected assign amount"] = NaN) =>
                LET p == PeriodOf(r["Date V2"], aggregation_period)
                    rows == InGroup("Group", r["Group"], p)
                IN  \E cell \in view.pivot :
                        /\ cell.key = r["Group"] /\ cell.Period = p
                        /\ cell.total_principal = TotalOf(rows, "Collected principal amount")
                        /\ cell.total_assign = TotalOf(rows, "Collected assign amount")

\* A row without a numerator is alone in the table and its denominator is summed
C13_Witness ==
    /\ ratio_ran
    /\ Cardinality(returned) = 1
    /\ \E r \in returned : r["Collected principal amount"] = NaN
    /\ \E cell \in view.pivot : cell.total_principal = 0 /\ cell.total_assign > 0

\* C14: under Daily aggregation the bucket is the day: rows of one group dated
\* on one day share a pivot cell and a chart point, every bucket is a midnight,
\* and no two pivot columns have the same header.
C14_Claim ==
    (pc = "aggregated" /\ aggregation_period = "Daily") =>
        /\ \A c1, c2 \in view.columns : c1.label = c2.label => c1 = c2
        /\ \A key \in GroupingColumns : \A c1, c2 \in Grouped(key) :
              (c1.key = c2.key /\ DateOf(c1.Period) = DateOf(c2.Period)) => c1 = c2
        /\ \A cell \in view.pivot : cell.Period = ToDatetime(DateOf(cell.Period))

\* C15: with no categorical selection the returned table holds exactly the
\* rows dated on a day from the start date to the end date, both included,
\* whatever their time of day.
C15_Claim ==
    (pc = "idle" /\ session_state = EmptySelections) =>
        returned = {r \in df : /\ DateOf(r["Date V2"]) >= selected_start_date
                               /\ DateOf(r["Date V2"]) <= selected_end_date}

\* C16: under Weekly aggregation the header of a row's bucket is the header
\* the row's own date formats to, and two rows have the same header exactly
\* when they are in the same bucket.
C16_Claim ==
    (pc = "aggregated" /\ aggregation_period = "Weekly") =>
        /\ \A r \in returned : \A col \in view.columns :
              col.Period = PeriodOf(r["Date V2"], "Weekly") =>
                  col.label = Label(r["Date V2"], "Weekly")
        /\ \A r1, r2 \in returned :
              (Label(PeriodOf(r1["Date V2"], "Weekly"), "Weekly")
                   = Label(PeriodOf(r2["Date V2"], "Weekly"), "Weekly"))
              <=> (PeriodOf(r1["Date V2"], "Weekly") = PeriodOf(r2["Date V2"], "Weekly"))

\* C17: when some row is in the date range, the table a completed pass returns
\* is not empty, whatever has been toggled.
C17_Claim ==
    (pc = "idle" /\ date_bounded # {}) => returned # {}

\* C18: a completed pass with the start date after the end date returns an
\* empty table and leaves every selection empty; and no step that ends a pass
\* (a date change among them) puts an option into a selection: only the
\* handler of a button does.
C18_PrunedByDates ==
    /\ [](((pc = "idle" /\ selected_start_date > selected_end_date) =>
             (returned = {} /\ session_state = EmptySelections)))
    /\ [][pc' = "idle" =>
             \A c \in Columns : Range(session_state'[c]) \subseteq Range(session_state[c])]_vars

\* The start date was put after the end date and the pass emptied a selection
C18_Witness ==
    /\ pc = "idle"
    /\ last.op = "date"
    /\ selected_start_date > selected_end_date
    /\ pruned # {}
    /\ session_state = EmptySelections
====
